---- MODULE Spec2Model ----
(***************************************************************************)
(* Model of ExpenseSplitter.py: the SQLite-backed store of persons,        *)
(* expenses and expense splits (PersonManager, ExpenseManager), the        *)
(* balance computation (calculate_balances) and the greedy settlement      *)
(* walk (get_settlement_plan).                                             *)
(*                                                                         *)
(* Currency values are REAL columns / Python floats.  They are modelled    *)
(* as integer multiples of the unit 1/Scale, with Scale a power of two:    *)
(* such values and their small sums and differences are exact binary       *)
(* floats, so the code computes on them exactly what the model computes.   *)
(* The literal 0.01 of the code is the rational 1/100: x < 0.01 for a      *)
(* value of x units is 100 * x < Scale.                                    *)
(*                                                                         *)
(* The columns description and date of the expense table are written and   *)
(* never read by any modelled operation; they are left out.                *)
(***************************************************************************)
EXTENDS Integers, Sequences, FiniteSets

\* ---------------------------------------------------------------- bounds
Scale == 128          \* units per currency unit (resolution of the amounts)
MaxPersonId == 3      \* rows ever inserted into person
MaxExpenseId == 2     \* rows ever inserted into expense
MaxAmount == 2        \* largest expense amount, in units
MaxPeople == 4        \* entries of a balances mapping given to the planner
MaxBal == 3           \* largest magnitude of a small balance, in units
NumBalanced == 5      \* entries of a balances mapping that sums to zero

NameSeq == <<"a", "b", "c", "d", "e">>
PlanNames == <<"p1", "p2", "p3", "p4", "p5", "p6", "p7">>

VARIABLES
    person,          \* table person: id -> name
    person_seq,      \* AUTOINCREMENT counter of person (largest id ever used)
    expense,         \* table expense: id -> [amount, paid_by]
    expense_seq,     \* AUTOINCREMENT counter of expense
    expense_split,   \* table expense_split: rows [expense_id, person_id, share_amount]
    ret,             \* what the last manager call returned or raised
    pc,              \* position inside get_settlement_plan ("idle" outside it)
    balances,        \* local of get_settlement_plan: the mapping, in dict order
    debtors,         \* local: list of <<person_id, name, remaining debt>>
    creditors,       \* local: list of <<person_id, name, remaining credit>>
    i,               \* local: debtor cursor (0-based, as in the code)
    j,               \* local: creditor cursor (0-based)
    transactions,    \* local: the list being returned
    page,            \* st.session_state.page
    edit_expense_id  \* st.session_state.edit_expense_id

vars == <<person, person_seq, expense, expense_seq, expense_split, ret,
          pc, balances, debtors, creditors, i, j, transactions,
          page, edit_expense_id>>
session == <<page, edit_expense_id>>
db == <<person, person_seq, expense, expense_seq, expense_split>>
locals == <<pc, balances, debtors, creditors, i, j, transactions>>

\* ---------------------------------------------------------------- helpers
Abs(x) == IF x < 0 THEN -x ELSE x

RECURSIVE SeqSum(_)
SeqSum(s) == IF s = <<>> THEN 0 ELSE Head(s) + SeqSum(Tail(s))

RECURSIVE SetToSeq(_)
\* the ids of a table in rowid order
SetToSeq(S) ==
    IF S = {} THEN <<>>
    ELSE LET m == CHOOSE x \in S : \A y \in S : x <= y
         IN  <<m>> \o SetToSeq(S \ {m})

\* ---------------------------------------------------------------- PersonManager
\* INSERT INTO person (name): name is UNIQUE, id is AUTOINCREMENT
add_person(name) ==
    /\ pc = "idle"
    /\ person_seq < MaxPersonId
    /\ IF \E p \in DOMAIN person : person[p] = name
       THEN /\ ret' = "False"
            /\ UNCHANGED db
       ELSE /\ person' = [p \in DOMAIN person \cup {person_seq + 1} |->
                            IF p = person_seq + 1 THEN name ELSE person[p]]
            /\ person_seq' = person_seq + 1
            /\ ret' = "True"
            /\ UNCHANGED <<expense, expense_seq, expense_split>>
    /\ UNCHANGED locals

\* the update on a name column without the UNIQUE constraint
update_person_unchecked(person_id, name) ==
    /\ pc = "idle"
    /\ person' = [p \in DOMAIN person |->
                     IF p = person_id THEN name ELSE person[p]]
    /\ ret' = "True"
    /\ UNCHANGED <<person_seq, expense, expense_seq, expense_split>>
    /\ UNCHANGED locals

\* UPDATE person SET name = ? WHERE id = ?
update_person(person_id, name) ==
    /\ pc = "idle"
    /\ IF /\ person_id \in DOMAIN person
          /\ \E p \in DOMAIN person \ {person_id} : person[p] = name
       THEN /\ ret' = "False"
            /\ UNCHANGED db
       ELSE /\ person' = [p \in DOMAIN person |->
                            IF p = person_id THEN name ELSE person[p]]
            /\ ret' = "True"
            /\ UNCHANGED <<person_seq, expense, expense_seq, expense_split>>
    /\ UNCHANGED locals

\* DELETE FROM person WHERE id = ?  (the connection never turns foreign keys
\* on, so the expenses and splits naming the person stay)
delete_person(person_id) ==
    /\ pc = "idle"
    /\ person' = [p \in DOMAIN person \ {person_id} |-> person[p]]
    /\ ret' = "None"
    /\ UNCHANGED <<person_seq, expense, expense_seq, expense_split>>
    /\ UNCHANGED locals

\* ---------------------------------------------------------------- ExpenseManager
\* the rows inserted for a splits dict
SplitRows(expense_id, splits) ==
    {[expense_id |-> expense_id, person_id |-> p, share_amount |-> splits[p]] :
        p \in DOMAIN splits}

add_expense(amount, paid_by, splits) ==
    /\ pc = "idle"
    /\ expense_seq < MaxExpenseId
    /\ LET expense_id == expense_seq + 1
       IN  /\ expense' = [e \in DOMAIN expense \cup {expense_id} |->
                            IF e = expense_id
                            THEN [amount |-> amount, paid_by |-> paid_by]
                            ELSE expense[e]]
           /\ expense_seq' = expense_id
           /\ expense_split' = expense_split \cup SplitRows(expense_id, splits)
    /\ ret' = "True"
    /\ UNCHANGED <<person, person_seq>>
    /\ UNCHANGED locals

\* the update without DELETE FROM expense_split WHERE expense_id = ?
update_expense_keeps_splits(expense_id, amount, paid_by, splits) ==
    /\ pc = "idle"
    /\ expense' = [e \in DOMAIN expense |->
                     IF e = expense_id
                     THEN [amount |-> amount, paid_by |-> paid_by]
                     ELSE expense[e]]
    /\ expense_split' = expense_split \cup SplitRows(expense_id, splits)
    /\ ret' = "True"
    /\ UNCHANGED <<person, person_seq, expense_seq>>
    /\ UNCHANGED locals

\* UPDATE expense SET ...; DELETE FROM expense_split WHERE expense_id = ?;
\* INSERT INTO expense_split for each item of splits
update_expense(expense_id, amount, paid_by, splits) ==
    /\ pc = "idle"
    /\ expense' = [e \in DOMAIN expense |->
                     IF e = expense_id
                     THEN [amount |-> amount, paid_by |-> paid_by]
                     ELSE expense[e]]
    /\ expense_split' = {s \in expense_split : s.expense_id # expense_id}
                            \cup SplitRows(expense_id, splits)
    /\ ret' = "True"
    /\ UNCHANGED <<person, person_seq, expense_seq>>
    /\ UNCHANGED locals

\* DELETE FROM expense WHERE id = ?  (ON DELETE CASCADE is declared on
\* expense_split, but foreign keys are off: the splits stay)
delete_expense(expense_id) ==
    /\ pc = "idle"
    /\ expense' = [e \in DOMAIN expense \ {expense_id} |-> expense[e]]
    /\ ret' = "True"
    /\ UNCHANGED <<person, person_seq, expense_seq, expense_split>>
    /\ UNCHANGED locals

RECURSIVE SumAmount(_)
\* SUM(amount) over a set of expense ids
SumAmount(ids) ==
    IF ids = {} THEN 0
    ELSE LET e == CHOOSE x \in ids : TRUE
         IN  expense[e].amount + SumAmount(ids \ {e})

RECURSIVE SumShare(_)
\* SUM(share_amount) over a set of expense_split rows
SumShare(rows) ==
    IF rows = {} THEN 0
    ELSE LET r == CHOOSE x \in rows : TRUE
         IN  r.share_amount + SumShare(rows \ {r})

\* SELECT paid_by, SUM(amount) FROM expense GROUP BY paid_by
payments ==
    LET payers == {expense[e].paid_by : e \in DOMAIN expense}
    IN  [p \in payers |-> SumAmount({e \in DOMAIN expense : expense[e].paid_by = p})]

\* SELECT person_id, SUM(share_amount) FROM expense_split GROUP BY person_id
shares ==
    LET owing == {s.person_id : s \in expense_split}
    IN  [p \in owing |-> SumShare({s \in expense_split : s.person_id = p})]

\* balances[paid_by] / balances[person_id] of an id that is no key: KeyError
calculate_balances_raises ==
    \/ \E p \in DOMAIN payments : p \notin DOMAIN person
    \/ \E p \in DOMAIN shares : p \notin DOMAIN person

\* the mapping returned, as the sequence of its entries in dict order (the
\* order of SELECT id, name FROM person, which scans the table by rowid)
calculate_balances ==
    LET ids == SetToSeq(DOMAIN person)
    IN  [k \in 1..Len(ids) |->
            [id |-> ids[k],
             name |-> person[ids[k]],
             balance |-> (IF ids[k] \in DOMAIN payments THEN payments[ids[k]] ELSE 0)
                         - (IF ids[k] \in DOMAIN shares THEN shares[ids[k]] ELSE 0)]]

\* ---------------------------------------------------------------- get_settlement_plan
\* the comparison without its tolerance
ExactlyEqual(debt, credit) == debt = credit

\* the comparison with a tolerance of 0.1
AlmostEqualLoose(debt, credit) == 10 * Abs(debt - credit) < Scale

\* abs(debt - credit) < 0.01
AlmostEqual(debt, credit) == 100 * Abs(debt - credit) < Scale

RECURSIVE ExtractDebtorsNonStrict(_)
\* the partition with <= 0 in place of < 0
ExtractDebtorsNonStrict(b) ==
    IF b = <<>> THEN <<>>
    ELSE (IF Head(b).balance <= 0
          THEN << <<Head(b).id, Head(b).name, Abs(Head(b).balance)>> >>
          ELSE <<>>) \o ExtractDebtorsNonStrict(Tail(b))

RECURSIVE ExtractDebtors(_)
\* for person_id, data in balances.items(): if data['balance'] < 0: append
ExtractDebtors(b) ==
    IF b = <<>> THEN <<>>
    ELSE (IF Head(b).balance < 0
          THEN << <<Head(b).id, Head(b).name, Abs(Head(b).balance)>> >>
          ELSE <<>>) \o ExtractDebtors(Tail(b))

RECURSIVE ExtractCreditorsNonStrict(_)
\* the partition with >= 0 in place of > 0
ExtractCreditorsNonStrict(b) ==
    IF b = <<>> THEN <<>>
    ELSE (IF Head(b).balance >= 0
          THEN << <<Head(b).id, Head(b).name, Head(b).balance>> >>
          ELSE <<>>) \o ExtractCreditorsNonStrict(Tail(b))

RECURSIVE ExtractCreditors(_)
\* elif data['balance'] > 0: append
ExtractCreditors(b) ==
    IF b = <<>> THEN <<>>
    ELSE (IF Head(b).balance > 0
          THEN << <<Head(b).id, Head(b).name, Head(b).balance>> >>
          ELSE <<>>) \o ExtractCreditors(Tail(b))

RECURSIVE InsertDescUnstable(_, _)
\* x goes in front of the entries of its own amount: a sort that is not stable
InsertDescUnstable(x, s) ==
    IF s = <<>> THEN <<x>>
    ELSE IF Head(s)[3] > x[3] THEN <<Head(s)>> \o InsertDescUnstable(x, Tail(s))
    ELSE <<x>> \o s

RECURSIVE InsertDesc(_, _)
\* x goes behind every entry whose amount is at least its own
InsertDesc(x, s) ==
    IF s = <<>> THEN <<x>>
    ELSE IF Head(s)[3] >= x[3] THEN <<Head(s)>> \o InsertDesc(x, Tail(s))
    ELSE <<x>> \o s

RECURSIVE SortDesc(_)
\* list.sort(key=lambda x: x[2], reverse=True): descending and stable
SortDesc(s) ==
    IF s = <<>> THEN <<>>
    ELSE InsertDesc(s[Len(s)], SortDesc(SubSeq(s, 1, Len(s) - 1)))

\* balances = self.calculate_balances()
get_settlement_plan ==
    /\ pc = "idle"
    /\ IF calculate_balances_raises
       THEN /\ ret' = "KeyError"
            /\ UNCHANGED locals
       ELSE /\ balances' = calculate_balances
            /\ pc' = "extract"
            /\ ret' = "None"
            /\ UNCHANGED <<debtors, creditors, i, j, transactions>>
    /\ UNCHANGED db

\* the partition of the balances, the two sorts, transactions = [], i, j = 0, 0
extract_and_sort ==
    /\ pc = "extract"
    /\ debtors' = SortDesc(ExtractDebtors(balances))
    /\ creditors' = SortDesc(ExtractCreditors(balances))
    /\ transactions' = <<>>
    /\ i' = 0
    /\ j' = 0
    /\ pc' = "loop"
    /\ UNCHANGED <<db, ret, balances>>

\* the iteration with the j += 1 of its last branch left out
loop_iteration_stuck ==
    /\ pc = "loop"
    /\ i < Len(debtors) /\ j < Len(creditors)
    /\ LET debtor_id == debtors[i + 1][1]
           debtor_name == debtors[i + 1][2]
           debt == debtors[i + 1][3]
           creditor_id == creditors[j + 1][1]
           creditor_name == creditors[j + 1][2]
           credit == creditors[j + 1][3]
       IN  IF AlmostEqual(debt, credit)
           THEN /\ transactions' = Append(transactions,
                      <<debtor_id, debtor_name, creditor_id, creditor_name, debt>>)
                /\ i' = i + 1
                /\ j' = j + 1
                /\ UNCHANGED <<debtors, creditors>>
           ELSE IF debt < credit
           THEN /\ transactions' = Append(transactions,
                      <<debtor_id, debtor_name, creditor_id, creditor_name, debt>>)
                /\ creditors' = [creditors EXCEPT ![j + 1] =
                                    <<creditor_id, creditor_name, credit - debt>>]
                /\ i' = i + 1
                /\ UNCHANGED <<debtors, j>>
           ELSE /\ transactions' = Append(transactions,
                      <<debtor_id, debtor_name, creditor_id, creditor_name, credit>>)
                /\ debtors' = [debtors EXCEPT ![i + 1] =
                                  <<debtor_id, debtor_name, debt - credit>>]
                /\ UNCHANGED <<creditors, i, j>>
    /\ UNCHANGED <<db, ret, balances, pc>>

\* one iteration of while i < len(debtors) and j < len(creditors)
loop_iteration ==
    /\ pc = "loop"
    /\ i < Len(debtors) /\ j < Len(creditors)
    /\ LET debtor_id == debtors[i + 1][1]
           debtor_name == debtors[i + 1][2]
           debt == debtors[i + 1][3]
           creditor_id == creditors[j + 1][1]
           creditor_name == creditors[j + 1][2]
           credit == creditors[j + 1][3]
       IN  IF AlmostEqual(debt, credit)
           THEN /\ transactions' = Append(transactions,
                      <<debtor_id, debtor_name, creditor_id, creditor_name, debt>>)
                /\ i' = i + 1
                /\ j' = j + 1
                /\ UNCHANGED <<debtors, creditors>>
           ELSE IF debt < credit
           THEN /\ transactions' = Append(transactions,
                      <<debtor_id, debtor_name, creditor_id, creditor_name, debt>>)
                /\ creditors' = [creditors EXCEPT ![j + 1] =
                                    <<creditor_id, creditor_name, credit - debt>>]
                /\ i' = i + 1
                /\ UNCHANGED <<debtors, j>>
           ELSE /\ transactions' = Append(transactions,
                      <<debtor_id, debtor_name, creditor_id, creditor_name, credit>>)
                /\ debtors' = [debtors EXCEPT ![i + 1] =
                                  <<debtor_id, debtor_name, debt - credit>>]
                /\ j' = j + 1
                /\ UNCHANGED <<creditors, i>>
    /\ UNCHANGED <<db, ret, balances, pc>>

\* the loop condition fails: return transactions
loop_exit ==
    /\ pc = "loop"
    /\ ~(i < Len(debtors) /\ j < Len(creditors))
    /\ pc' = "done"
    /\ ret' = "transactions"
    /\ UNCHANGED <<db, balances, debtors, creditors, i, j, transactions>>

\* a return that records the plan as carried out by clearing the splits
plan_returned_settled ==
    /\ pc = "done"
    /\ pc' = "idle"
    /\ balances' = <<>>
    /\ debtors' = <<>>
    /\ creditors' = <<>>
    /\ transactions' = <<>>
    /\ i' = 0
    /\ j' = 0
    /\ expense_split' = {}
    /\ UNCHANGED <<person, person_seq, expense, expense_seq, ret>>

\* the caller has the list; the locals are gone
plan_returned ==
    /\ pc = "done"
    /\ pc' = "idle"
    /\ balances' = <<>>
    /\ debtors' = <<>>
    /\ creditors' = <<>>
    /\ transactions' = <<>>
    /\ i' = 0
    /\ j' = 0
    /\ UNCHANGED <<db, ret>>

\* ---------------------------------------------------------------- inputs
\* the amounts the Amount ($) widget lets through: min_value=0.01
Amounts == {a \in 1..MaxAmount : 100 * a >= Scale}

\* the splits dicts the forms pass on: a share above 0 and at most the amount
\* for some of the stored persons, at least one, refused only if
\* abs(sum(splits.values()) - amount) > 0.01.  Shares are whole units of
\* 1/Scale: an equal or percentage split whose shares are not (a third of
\* 2/128) is not among them.
SplitsOf(amount) ==
    UNION {{f \in [S -> 1..amount] :
                100 * Abs(SumShare({[share_amount |-> f[p], person_id |-> p] : p \in S})
                          - amount) <= Scale} :
           S \in SUBSET (DOMAIN person) \ {{}}}

\* those of them that sum to the amount exactly
ExactSplitsOf(amount) ==
    {f \in SplitsOf(amount) :
        SumShare({[share_amount |-> f[p], person_id |-> p] : p \in DOMAIN f}) = amount}

\* the balances mapping of persons 1..Len(v) with the balances v
BalancesOf(v) ==
    [k \in 1..Len(v) |-> [id |-> k, name |-> PlanNames[k], balance |-> v[k]]]

SmallValues == (-MaxBal)..MaxBal
\* whole currency units: amounts that differ differ by far more than 0.01
WholeValues == {k * Scale : k \in (-MaxBal)..MaxBal}
\* the amounts of the spec's scenarios A to C: 5, 10, 20 currency units
ScenarioValues == {0, 5 * Scale, -5 * Scale, 10 * Scale, -10 * Scale, 20 * Scale}

RECURSIVE BalanceSum(_)
BalanceSum(b) == IF b = <<>> THEN 0 ELSE Head(b).balance + BalanceSum(Tail(b))

\* the names a caller passes: a name is only ever compared for equality, so
\* the stored names and the first name not stored stand for all of them
StoredNames == {person[p] : p \in DOMAIN person}
FreshName ==
    NameSeq[CHOOSE k \in 1..Len(NameSeq) :
                /\ NameSeq[k] \notin StoredNames
                /\ \A m \in 1..(k - 1) : NameSeq[m] \in StoredNames]
NameInputs == StoredNames \cup {FreshName}

\* ---------------------------------------------------------------- specifications
EmptyLocals ==
    /\ balances = <<>>
    /\ debtors = <<>>
    /\ creditors = <<>>
    /\ transactions = <<>>
    /\ i = 0
    /\ j = 0

EmptyDb ==
    /\ person = <<>>
    /\ person_seq = 0
    /\ expense = <<>>
    /\ expense_seq = 0
    /\ expense_split = {}

\* Python's None as a value of edit_expense_id: no AUTOINCREMENT id is 0
None == 0

\* the session state ExpenseSplitterApp.__init__ sets up
InitSession ==
    /\ page = "dashboard"
    /\ edit_expense_id = None

\* the application: an empty database, nothing running
Init ==
    /\ EmptyDb
    /\ EmptyLocals
    /\ ret = "None"
    /\ pc = "idle"
    /\ InitSession

PlanNext ==
    \/ extract_and_sort /\ UNCHANGED session
    \/ loop_iteration /\ UNCHANGED session
    \/ loop_exit /\ UNCHANGED session

\* the managers called directly: the session state is not theirs to change.
\* The id of the row to update or delete is any id the table has handed out
\* (the methods do not look the row up) and the amount is any amount above 0;
\* payers and split persons are stored persons, as the forms offer them.
\* add_person, add_expense, update_expense and delete_expense
NextLedger ==
    \/ \E name \in NameInputs : add_person(name) /\ UNCHANGED session
    \/ \E amount \in 1..MaxAmount, paid_by \in DOMAIN person :
          \E splits \in SplitsOf(amount) :
             add_expense(amount, paid_by, splits) /\ UNCHANGED session
    \/ \E expense_id \in 1..expense_seq, amount \in 1..MaxAmount, paid_by \in DOMAIN person :
          \E splits \in SplitsOf(amount) :
             update_expense(expense_id, amount, paid_by, splits) /\ UNCHANGED session
    \/ \E expense_id \in 1..expense_seq : delete_expense(expense_id) /\ UNCHANGED session

SpecLedger == Init /\ [][NextLedger]_vars

\* the same four calls, each expense given splits that sum to its amount
NextExact ==
    \/ \E name \in NameInputs : add_person(name) /\ UNCHANGED session
    \/ \E amount \in 1..MaxAmount, paid_by \in DOMAIN person :
          \E splits \in ExactSplitsOf(amount) :
             add_expense(amount, paid_by, splits) /\ UNCHANGED session
    \/ \E expense_id \in 1..expense_seq, amount \in 1..MaxAmount, paid_by \in DOMAIN person :
          \E splits \in ExactSplitsOf(amount) :
             update_expense(expense_id, amount, paid_by, splits) /\ UNCHANGED session
    \/ \E expense_id \in 1..expense_seq : delete_expense(expense_id) /\ UNCHANGED session

SpecExact == Init /\ [][NextExact]_vars

\* the four calls and delete_person
NextStore ==
    \/ NextLedger
    \/ \E person_id \in 1..person_seq : delete_person(person_id) /\ UNCHANGED session

SpecStore == Init /\ [][NextStore]_vars

\* the five calls and get_settlement_plan
NextSettle ==
    \/ NextStore
    \/ get_settlement_plan /\ UNCHANGED session
    \/ PlanNext
    \/ plan_returned /\ UNCHANGED session

SpecSettle == Init /\ [][NextSettle]_vars

\* every public method of the two managers
Next ==
    \/ NextSettle
    \/ \E person_id \in 1..person_seq, name \in NameInputs :
          update_person(person_id, name) /\ UNCHANGED session

Spec == Init /\ [][Next]_vars

\* the person table alone, under every choice of names
Names == {NameSeq[k] : k \in 1..MaxPersonId}

NextPeople ==
    \/ \E name \in Names : add_person(name) /\ UNCHANGED session
    \/ \E person_id \in DOMAIN person, name \in Names :
          update_person(person_id, name) /\ UNCHANGED session
    \/ \E person_id \in DOMAIN person : delete_person(person_id) /\ UNCHANGED session

SpecPeople == Init /\ [][NextPeople]_vars

\* get_settlement_plan on any balances mapping of up to MaxPeople persons
InitPlan ==
    /\ EmptyDb
    /\ ret = "None"
    /\ pc = "extract"
    /\ InitSession
    /\ \/ \E n \in 1..MaxPeople : \E v \in [1..n -> SmallValues] : balances = BalancesOf(v)
       \/ \E n \in 1..MaxPeople : \E v \in [1..n -> WholeValues] : balances = BalancesOf(v)
       \/ \E v \in [1..3 -> ScenarioValues] : balances = BalancesOf(v)
    /\ debtors = <<>>
    /\ creditors = <<>>
    /\ transactions = <<>>
    /\ i = 0
    /\ j = 0

SpecPlan == InitPlan /\ [][PlanNext]_vars

\* get_settlement_plan on the balances mappings that sum to zero within 0.01
InitBalanced ==
    /\ EmptyDb
    /\ ret = "None"
    /\ pc = "extract"
    /\ InitSession
    /\ \E v \in [1..NumBalanced -> SmallValues] :
          /\ 100 * Abs(SeqSum(v)) < Scale
          /\ balances = BalancesOf(v)
    /\ debtors = <<>>
    /\ creditors = <<>>
    /\ transactions = <<>>
    /\ i = 0
    /\ j = 0

SpecBalanced == InitBalanced /\ [][PlanNext]_vars

\* ---------------------------------------------------------------- ExpenseSplitterApp
Pages == {"dashboard", "add_expense", "manage_people", "settlement"}

\* the expenses get_all_expenses and get_expense_by_id return: JOIN person
\* drops an expense whose payer is not stored
Listed == {e \in DOMAIN expense : expense[e].paid_by \in DOMAIN person}

\* a sidebar button that leaves the selected expense as it is
sidebar_button_keeps_edit(target) ==
    /\ pc = "idle"
    /\ page' = target
    /\ UNCHANGED edit_expense_id
    /\ UNCHANGED <<db, ret>>
    /\ UNCHANGED locals

\* run: one of the four sidebar buttons was clicked
sidebar_button(target) ==
    /\ pc = "idle"
    /\ page' = target
    /\ edit_expense_id' = None
    /\ UNCHANGED <<db, ret>>
    /\ UNCHANGED locals

\* show_dashboard: View/Edit Expense on the expense selected in the list
view_edit_expense(selected_expense) ==
    /\ pc = "idle"
    /\ page = "dashboard"
    /\ selected_expense \in Listed
    /\ edit_expense_id' = selected_expense
    /\ page' = "add_expense"
    /\ UNCHANGED <<db, ret>>
    /\ UNCHANGED locals

\* show_dashboard: Delete Expense on the expense selected in the list
delete_expense_button(selected_expense) ==
    /\ page = "dashboard"
    /\ selected_expense \in Listed
    /\ delete_expense(selected_expense)
    /\ UNCHANGED session

\* show_add_expense: the form was submitted, valid, and add_expense returned True
add_expense_submit(amount, paid_by, splits) ==
    /\ page = "add_expense"
    /\ edit_expense_id = None
    /\ DOMAIN person # {}
    /\ add_expense(amount, paid_by, splits)
    /\ page' = "dashboard"
    /\ UNCHANGED edit_expense_id

\* show_edit_expense: the form was submitted, valid, and update_expense
\* returned True (the form is shown only for an expense get_expense_by_id finds)
update_expense_submit(amount, paid_by, splits) ==
    /\ page = "add_expense"
    /\ edit_expense_id # None
    /\ edit_expense_id \in Listed
    /\ update_expense(edit_expense_id, amount, paid_by, splits)
    /\ edit_expense_id' = None
    /\ page' = "dashboard"

\* show_edit_expense: Cancel
cancel_edit ==
    /\ pc = "idle"
    /\ page = "add_expense"
    /\ edit_expense_id # None
    /\ edit_expense_id \in Listed
    /\ edit_expense_id' = None
    /\ page' = "dashboard"
    /\ UNCHANGED <<db, ret>>
    /\ UNCHANGED locals

\* show_manage_people: Add Person submitted with a non-empty name
add_person_submit(name) ==
    /\ page = "manage_people"
    /\ add_person(name)
    /\ UNCHANGED session

\* the application driven through its pages
NextApp ==
    \/ \E target \in Pages : sidebar_button(target)
    \/ \E selected_expense \in DOMAIN expense : view_edit_expense(selected_expense)
    \/ \E selected_expense \in DOMAIN expense : delete_expense_button(selected_expense)
    \/ \E amount \in Amounts, paid_by \in DOMAIN person :
          \E splits \in SplitsOf(amount) : add_expense_submit(amount, paid_by, splits)
    \/ \E amount \in Amounts, paid_by \in DOMAIN person :
          \E splits \in SplitsOf(amount) : update_expense_submit(amount, paid_by, splits)
    \/ cancel_edit
    \/ \E name \in NameInputs : add_person_submit(name)

SpecApp == Init /\ [][NextApp]_vars

\* ---------------------------------------------------------------- properties
\* x is zero within 0.01
Within001(x) == 100 * Abs(x) < Scale

RECURSIVE TxTotal(_)
\* the sum of the amounts of a list of transactions
TxTotal(txs) == IF txs = <<>> THEN 0 ELSE Head(txs)[5] + TxTotal(Tail(txs))

RECURSIVE PositiveTotal(_)
\* the sum of the positive balances of a mapping
PositiveTotal(b) ==
    IF b = <<>> THEN 0
    ELSE (IF Head(b).balance > 0 THEN Head(b).balance ELSE 0) + PositiveTotal(Tail(b))

\* what person id pays / receives in the first n transactions
PaidUpTo(id, n) ==
    TxTotal(SelectSeq(SubSeq(transactions, 1, n), LAMBDA t : t[1] = id))
ReceivedUpTo(id, n) ==
    TxTotal(SelectSeq(SubSeq(transactions, 1, n), LAMBDA t : t[3] = id))
Paid(id) == PaidUpTo(id, Len(transactions))
Received(id) == ReceivedUpTo(id, Len(transactions))

\* C1: for balances that sum to zero within 0.01, the amounts of the returned
\* transactions sum to the total of the positive balances within 0.01.
C1_AmountsSumToPositiveTotal ==
    (pc = "done" /\ Within001(BalanceSum(balances)))
        => Within001(TxTotal(transactions) - PositiveTotal(balances))

\* C2: for balances that sum to zero, the returned plan brings every person's
\* balance to zero within 0.01: a debtor pays their debt, a creditor receives
\* their credit.
C2_PlanSettlesEveryone ==
    (pc = "done" /\ BalanceSum(balances) = 0)
        => \A k \in 1..Len(balances) :
              Within001(balances[k].balance + Paid(balances[k].id)
                            - Received(balances[k].id))

RECURSIVE NetOverExpenses(_, _)
\* over the stored expenses ids: what person p paid minus p's shares of them
NetOverExpenses(p, ids) ==
    IF ids = {} THEN 0
    ELSE LET e == CHOOSE x \in ids : TRUE
         IN  (IF expense[e].paid_by = p THEN expense[e].amount ELSE 0)
             - SumShare({s \in expense_split : s.expense_id = e /\ s.person_id = p})
             + NetOverExpenses(p, ids \ {e})

\* C3: calculate_balances returns exactly one entry per stored person, and a
\* person's balance is the sum of the amounts of the expenses they paid minus
\* the sum of their shares over all expenses (0 for a person in no expense).
C3_BalanceIsPaidMinusShares ==
    ~calculate_balances_raises =>
        /\ {calculate_balances[k].id : k \in DOMAIN calculate_balances} = DOMAIN person
        /\ Len(calculate_balances) = Cardinality(DOMAIN person)
        /\ \A k \in DOMAIN calculate_balances :
              calculate_balances[k].balance
                  = NetOverExpenses(calculate_balances[k].id, DOMAIN expense)

\* C4: with every expense given splits that sum to its amount, the balances
\* returned by calculate_balances sum to zero within 0.01.
C4_BalancesSumToZero ==
    ~calculate_balances_raises => Within001(BalanceSum(calculate_balances))

\* C5: the payer of every stored expense and the person of every stored split
\* is a stored person, so calculate_balances never looks up a missing id.
C5_ReferencesAreStoredPersons ==
    /\ \A e \in DOMAIN expense : expense[e].paid_by \in DOMAIN person
    /\ \A s \in expense_split : s.person_id \in DOMAIN person
    /\ ~calculate_balances_raises

\* C6: no returned transaction names, as debtor or as creditor, a person whose
\* balance is exactly 0, and every stored person, those of balance 0 included,
\* has an entry in the balances calculate_balances returned.
C6_ZeroBalanceInBalancesNotInPlan ==
    pc \in {"extract", "loop", "done"} =>
        /\ \A p \in DOMAIN person : \E k \in DOMAIN balances : balances[k].id = p
        /\ \A k \in DOMAIN balances :
              balances[k].balance = 0 =>
                  \A n \in DOMAIN transactions :
                      /\ transactions[n][1] # balances[k].id
                      /\ transactions[n][3] # balances[k].id

\* a plan with a transaction was returned while a stored person has balance 0
C6_Witness ==
    /\ pc = "done"
    /\ Len(transactions) > 0
    /\ \E k \in DOMAIN balances :
          balances[k].balance = 0 /\ balances[k].id \in DOMAIN person

\* C7: the settlement loop terminates for every input: an iteration increases
\* i, j or both and decreases neither, so there are at most
\* len(debtors) + len(creditors) iterations (one transaction each) before the
\* loop condition fails.
C7_LoopAdvancesAndTerminates ==
    /\ [][(pc = "loop" /\ pc' = "loop") =>
             /\ i' >= i
             /\ j' >= j
             /\ i' + j' > i + j
             /\ Len(transactions') = Len(transactions) + 1]_vars
    /\ [](pc \in {"loop", "done"} =>
             /\ Len(transactions) <= Len(debtors) + Len(creditors)
             /\ i <= Len(debtors)
             /\ j <= Len(creditors)
             /\ (pc = "done" => (i = Len(debtors) \/ j = Len(creditors))))

\* the loop ended after as many iterations as two debtors and two creditors allow
C7_Witness ==
    /\ pc = "done"
    /\ Len(debtors) >= 2
    /\ Len(creditors) >= 2
    /\ Len(transactions) = Len(debtors) + Len(creditors) - 1

\* C8: every returned transaction has a strictly positive amount, and at the
\* start of every iteration the remaining debt at cursor i and the remaining
\* credit at cursor j are strictly positive.
C8_AmountsStrictlyPositive ==
    /\ \A n \in DOMAIN transactions : transactions[n][5] > 0
    /\ (pc = "loop" /\ i < Len(debtors) /\ j < Len(creditors)) =>
          (debtors[i + 1][3] > 0 /\ creditors[j + 1][3] > 0)

\* a debtor has paid part of the debt and the loop is at its next iteration
C8_Witness ==
    /\ pc = "loop"
    /\ i < Len(debtors) /\ j < Len(creditors)
    /\ Len(transactions) >= 1
    /\ transactions[Len(transactions)][1] = debtors[i + 1][1]
    /\ \E k \in DOMAIN balances :
          /\ balances[k].id = debtors[i + 1][1]
          /\ debtors[i + 1][3] < -balances[k].balance

\* the balance of person id in the mapping the plan was made for
BalanceOf(id) == balances[CHOOSE k \in DOMAIN balances : balances[k].id = id].balance
\* what debtor / creditor id still owed / was owed before transaction n
DebtBefore(id, n) == -BalanceOf(id) - PaidUpTo(id, n - 1)
CreditBefore(id, n) == BalanceOf(id) - ReceivedUpTo(id, n - 1)

\* C9: when the current debtor's remaining debt and the current creditor's
\* remaining credit differ by less than 0.01, one transaction of the debt is
\* emitted, both cursors advance and no later transaction names either of the
\* two (nothing is emitted for the difference).
C9_AlmostEqualSettlesBoth ==
    /\ [](\A n \in DOMAIN transactions :
            LET t == transactions[n]
            IN  Within001(DebtBefore(t[1], n) - CreditBefore(t[3], n)) =>
                    /\ t[5] = DebtBefore(t[1], n)
                    /\ \A m \in (n + 1)..Len(transactions) :
                          /\ transactions[m][1] # t[1]
                          /\ transactions[m][3] # t[3])
    /\ [][(/\ pc = "loop" /\ pc' = "loop"
           /\ Within001(debtors[i + 1][3] - creditors[j + 1][3])) =>
             /\ i' = i + 1
             /\ j' = j + 1
             /\ transactions' = Append(transactions,
                   <<debtors[i + 1][1], debtors[i + 1][2],
                     creditors[j + 1][1], creditors[j + 1][2], debtors[i + 1][3]>>)]_vars

\* a debt and a credit that differ, by less than 0.01, were matched and the
\* walk went on to a later transaction
C9_Witness ==
    /\ pc = "done"
    /\ \E n \in DOMAIN transactions :
          LET t == transactions[n]
          IN  /\ Within001(DebtBefore(t[1], n) - CreditBefore(t[3], n))
              /\ DebtBefore(t[1], n) # CreditBefore(t[3], n)
              /\ n < Len(transactions)

\* the place of person id in the descending walk of the debtors (sign = -1) or
\* of the creditors (sign = 1): behind everyone of larger magnitude and behind
\* those of equal magnitude that come earlier in the balances
WalkPos(id, sign) ==
    LET at == CHOOSE k \in DOMAIN balances : balances[k].id = id
    IN  Cardinality({k \in DOMAIN balances :
            /\ sign * balances[k].balance > 0
            /\ \/ sign * balances[k].balance > sign * balances[at].balance
               \/ (balances[k].balance = balances[at].balance /\ k < at)})

ScenarioC ==
    <<[id |-> 1, name |-> PlanNames[1], balance |-> 5 * Scale],
      [id |-> 2, name |-> PlanNames[2], balance |-> 5 * Scale],
      [id |-> 3, name |-> PlanNames[3], balance |-> -10 * Scale]>>

\* C10: the transactions come in the order of the descending-magnitude walk:
\* the debtor position and the creditor position of successive transactions
\* never decrease (ties in the order of the balances); for X=+5, Y=+5, Z=-10
\* the result is Z pays X 5, then Z pays Y 5.
C10_EmissionOrderIsDescendingWalk ==
    /\ \A n \in 1..(Len(transactions) - 1) :
          /\ WalkPos(transactions[n][1], -1) <= WalkPos(transactions[n + 1][1], -1)
          /\ WalkPos(transactions[n][3], 1) <= WalkPos(transactions[n + 1][3], 1)
    /\ (pc = "done" /\ balances = ScenarioC) =>
          transactions = << <<3, PlanNames[3], 1, PlanNames[1], 5 * Scale>>,
                            <<3, PlanNames[3], 2, PlanNames[2], 5 * Scale>> >>

\* the plan for X=+5, Y=+5, Z=-10 was returned
C10_Witness ==
    /\ pc = "done"
    /\ balances = ScenarioC
    /\ Len(transactions) = 2

\* C11: with no write in between, a second call of calculate_balances returns
\* the mapping the first call returned, and a call of calculate_balances or
\* of get_settlement_plan leaves the stored persons, expenses and splits as
\* they are.
C11_BalancesRepeatableAndReadOnly ==
    [][/\ (pc # "idle" \/ pc' # "idle" \/ ret' = "KeyError") => db' = db
       /\ pc' # "idle" => balances' = calculate_balances']_vars

\* a plan over a stored expense was computed and returned
C11_Witness ==
    /\ pc = "done"
    /\ expense # <<>>
    /\ Len(balances) >= 2
    /\ Len(transactions) >= 1

\* C12: after delete_expense(e) has returned True, neither expense e nor any
\* split of e is stored, so calculate_balances counts no share of e.
C12_DeleteExpenseRemovesSplits ==
    [][\A e \in DOMAIN expense :
          delete_expense(e) =>
              /\ e \notin DOMAIN expense'
              /\ \A s \in expense_split' : s.expense_id # e]_vars

\* the number of entries of the balances below zero / above zero
NumNegative == Cardinality({k \in DOMAIN balances : balances[k].balance < 0})
NumPositive == Cardinality({k \in DOMAIN balances : balances[k].balance > 0})

\* C13: for balances that do not sum to zero the call still returns; it stops
\* as soon as the debtors or the creditors are exhausted and emits nothing for
\* the entries left over in the other list; no debtor pays in total more than
\* their debt and no creditor receives in total 0.01 or more above their credit.
C13_LeftoversDroppedNoOverpayment ==
    (pc \in {"loop", "done"} /\ BalanceSum(balances) # 0) =>
        /\ pc = "done" => (i = NumNegative \/ j = NumPositive)
        /\ i <= NumNegative /\ j <= NumPositive
        /\ \A k \in DOMAIN balances :
              LET id == balances[k].id
                  bal == balances[k].balance
              IN  /\ bal < 0 => /\ Paid(id) <= -bal
                                /\ WalkPos(id, -1) > i => Paid(id) = 0
                  /\ bal > 0 => /\ 100 * (Received(id) - bal) < Scale
                                /\ WalkPos(id, 1) > j => Received(id) = 0
                  /\ bal >= 0 => Paid(id) = 0
                  /\ bal <= 0 => Received(id) = 0

\* the creditors ran out first: a debtor is left over who pays nothing, and a
\* creditor was paid more than their credit
C13_Witness ==
    /\ pc = "done"
    /\ BalanceSum(balances) # 0
    /\ \E k \in DOMAIN balances :
          balances[k].balance < 0 /\ Paid(balances[k].id) = 0
    /\ \E k \in DOMAIN balances :
          balances[k].balance > 0 /\ Received(balances[k].id) > balances[k].balance

\* C16: the call returns at most (debtors + creditors - 1) transactions when
\* there are both debtors and creditors and none when either list is empty,
\* and no (debtor, creditor) pair is in more than one transaction.
C16_TransactionCountAndDistinctPairs ==
    pc \in {"loop", "done"} =>
        /\ (NumNegative = 0 \/ NumPositive = 0) => transactions = <<>>
        /\ (NumNegative > 0 /\ NumPositive > 0) =>
              Len(transactions) <= NumNegative + NumPositive - 1
        /\ \A m, n \in DOMAIN transactions :
              m # n => ~(/\ transactions[m][1] = transactions[n][1]
                         /\ transactions[m][3] = transactions[n][3])

\* the largest plan for three debtors or creditors on one side and more than
\* one on the other
C16_Witness ==
    /\ pc = "done"
    /\ NumNegative + NumPositive = 4
    /\ Len(transactions) = 3
    /\ \E n \in DOMAIN transactions : transactions[n][5] >= Scale

\* C14: add_person with a stored name returns False and leaves the stored
\* persons as they are; update_person to a name held by another person returns
\* False and changes no name; hence no two stored persons have the same name.
C14_NamesStayUnique ==
    /\ [](\A p, q \in DOMAIN person : person[p] = person[q] => p = q)
    /\ [][/\ \A name \in Names :
                (add_person(name) /\ \E p \in DOMAIN person : person[p] = name)
                    => (ret' = "False" /\ person' = person)
          /\ \A person_id \in DOMAIN person, name \in Names :
                (/\ update_person(person_id, name)
                 /\ \E q \in DOMAIN person : q # person_id /\ person[q] = name)
                    => (ret' = "False" /\ person' = person)]_vars

\* a duplicate name was just refused while two persons are stored and an
\* earlier person has been deleted
C14_Witness ==
    /\ ret = "False"
    /\ Cardinality(DOMAIN person) = 2
    /\ person_seq = MaxPersonId

\* what the expenses other than e contribute to the balance of person id
NetWithout(e, id) ==
    SumAmount({f \in DOMAIN expense \ {e} : expense[f].paid_by = id})
        - SumShare({s \in expense_split : s.expense_id # e /\ s.person_id = id})

\* C15: after update_expense(e, amount, paid_by, splits) has returned True the
\* stored splits of e are exactly the given splits, one per person of the
\* mapping, the splits of every other expense are unchanged, and the balances
\* are those of the other expenses plus the new amount, payer and shares of e.
C15_UpdateExpenseReplacesSplits ==
    [][(pc = "idle" /\ pc' = "idle" /\ ret' = "True" /\ DOMAIN expense' = DOMAIN expense) =>
       \A amount \in 1..MaxAmount : \A splits \in SplitsOf(amount) :
          \A e \in 1..expense_seq, paid_by \in DOMAIN person :
             update_expense(e, amount, paid_by, splits) =>
                /\ {s \in expense_split' : s.expense_id = e}
                      = {[expense_id |-> e, person_id |-> p, share_amount |-> splits[p]] :
                            p \in DOMAIN splits}
                /\ Cardinality({s \in expense_split' : s.expense_id = e})
                      = Cardinality(DOMAIN splits)
                /\ {s \in expense_split' : s.expense_id # e}
                      = {s \in expense_split : s.expense_id # e}
                /\ e \in DOMAIN expense =>
                      expense'[e] = [amount |-> amount, paid_by |-> paid_by]
                /\ \A f \in DOMAIN expense \ {e} : expense'[f] = expense[f]
                /\ ~calculate_balances_raises' =>
                      \A entry \in {calculate_balances'[k] :
                                        k \in 1..Cardinality(DOMAIN person)} :
                         entry.balance
                            = NetWithout(e, entry.id)
                              + (IF e \in DOMAIN expense /\ paid_by = entry.id
                                 THEN amount ELSE 0)
                              - (IF entry.id \in DOMAIN splits
                                 THEN splits[entry.id] ELSE 0)]_vars

\* two expenses are stored, the first split between two persons and paid by
\* one who has no share, the last write returned True and every split names
\* a stored expense
C15_Witness ==
    /\ pc = "idle" /\ ret = "True"
    /\ DOMAIN expense = {1, 2}
    /\ Cardinality({s \in expense_split : s.expense_id = 1}) = 2
    /\ \A s \in expense_split : s.expense_id = 1 => s.person_id # expense[1].paid_by
    /\ \A s \in expense_split : s.expense_id \in DOMAIN expense

\* C17: edit_expense_id is set only while page is 'add_expense': every sidebar
\* button and every exit from the edit form (Cancel, a successful Update
\* Expense) resets it to None, so the sidebar's Add Expense always leads to
\* the empty add form, never to the edit form of an expense selected earlier.
C17_EditIdOnlyOnEditForm ==
    /\ [](edit_expense_id # None => page = "add_expense")
    /\ [][/\ \A target \in Pages :
                (page' = target /\ page # target) =>
                    (edit_expense_id' = None \/ (page = "dashboard" /\ target = "add_expense"))
          /\ (edit_expense_id # None /\ ~(page' = page /\ edit_expense_id' = edit_expense_id))
                => edit_expense_id' = None
          /\ sidebar_button("add_expense") =>
                (page' = "add_expense" /\ edit_expense_id' = None)]_vars

\* the edit form of the first expense is open after a second expense was
\* added through the add form
C17_Witness ==
    /\ page = "add_expense"
    /\ edit_expense_id = 1
    /\ DOMAIN expense = {1, 2}

====
